---- MODULE Spec2Model ----
(***************************************************************************)
(* A model of templatebox.Box (src/templatebox.go): a registry of compiled *)
(* html/template sets keyed by name, with a global FuncMap, per-set        *)
(* FuncMaps and a debug mode that re-parses a FileSet before every render. *)
(*                                                                         *)
(* The template engine is modelled by what the registry relies on: a       *)
(* template object has a name, a set of named bodies and a function table; *)
(* parsing a source fails when the source is unreadable, has a syntax      *)
(* error, or calls a function that is not attached at parse time; Execute  *)
(* runs the body called like the object itself.                            *)
(***************************************************************************)
EXTENDS Naturals, Sequences, FiniteSets, TLC

\* ------------------------------------------------------------------ bounds

\* Longest Filenames / Templates list a caller passes.
MaxLen == 2

\* ------------------------------------------------------------------ values

\* Keys of the registry (the name argument of AddTemplate, RenderHTML).
Names == {"a", "b"}

\* Identifiers a FuncMap can bind, and the callables bound to them: G1 is
\* given in global maps, L1 in a FileSet's or TemplateSet's own map.
Idents == {"f"}
Undef == "undef"
GlobalImpls == {"G1"}
LocalImpls == {"L1"}

\* type FuncMap map[string]any.  A nil map and an empty map both bind
\* nothing; NilFuncMap is that value.
NilFuncMap == [i \in Idents |-> Undef]
GlobalFuncMaps == {NilFuncMap} \cup {[i \in Idents |-> g] : g \in GlobalImpls}
LocalFuncMaps == {NilFuncMap} \cup {[i \in Idents |-> l] : l \in LocalImpls}

\* Template sources.  "v1" is a static text, "callf" is a text that calls
\* the function f; Bad is a source ParseFiles or Parse returns an error for
\* whatever the function table: a file that cannot be read, a syntax error.
Bad == "bad"
Bodies == {"v1", "callf"}
Sources == Bodies \cup {Bad}
Contents == Sources

\* A path is the sequence of its components: "pages/b.html" is
\* <<"pages", "b.html">>, the empty path is "".
FileNames == {<<"a.html">>, <<"pages", "b.html">>}
TemplateDirs == {<< >>, <<"tpl">>}

\* filepath.Join(dir, name) and filepath.Base(path)
Join(dir, name) == dir \o name
Base(path) == <<path[Len(path)]>>

\* The lists of at most MaxLen elements of S, none of them twice.
ListsOf(S) == {l \in UNION {[1..n -> S] : n \in 0..MaxLen} :
                  \A i, j \in 1..Len(l) : l[i] = l[j] => i = j}

\* type FileSet struct { Filenames []string; FuncMap FuncMap }
FileSets == [Filenames : ListsOf(FileNames), FuncMap : LocalFuncMaps]
\* type TemplateSet struct { Templates []string; FuncMap FuncMap }
TemplateSets == [Templates : ListsOf(Sources), FuncMap : LocalFuncMaps]

\* Every name a template of a set can have: the first file name as given,
\* the base names of the files, and the registry key (AddTemplateRaw).
TemplateNames == FileNames \cup {Base(f) : f \in FileNames} \cup {<<n>> : n \in Names}

Empty == "empty"

VARIABLES
    cfg,                    \* b.cfg: the Config it points to
    debug,                  \* b.cfg.Debug
    fs,                     \* b.fs: "nil" (OS filesystem) or "embed"
    templateDir,            \* b.templateDir
    globalFuncMap,          \* b.globalFuncMap
    html,                   \* b.html: name -> compiled template
    rerenderTemplatesHTML,  \* b.rerenderTemplatesHTML: name -> FileSet
    disk,                   \* the OS filesystem: path -> content
    mu,                     \* b.mu: its writer and its readers
    muHTMLRerender,         \* b.muHTMLRerender: its writer and its readers
    th,                     \* each goroutine: the call it is in and where
    started,                \* whether the goroutines have been started
    expected,               \* name -> what RenderHTML returned when they were
    objects,                \* the *template.Template values: address -> content
    htmlRef,                \* b.html as Go holds it: name -> address
    loc,                    \* each goroutine with the address it holds
    rerenderMade,           \* b.rerenderTemplatesHTML is a map, not nil
    panicked                \* the process has panicked

vars == <<cfg, debug, fs, templateDir, globalFuncMap, html, rerenderTemplatesHTML,
          disk, mu, muHTMLRerender, th, started, expected, objects, htmlRef, loc,
          rerenderMade, panicked>>

\* What the goroutines add to the state of one caller.
conc == <<mu, muHTMLRerender, th, started, expected, objects, htmlRef, loc,
          rerenderMade, panicked>>

\* The paths a FileSet of this box can name, under b.templateDir, and the
\* ones among them that are rewritten while the program runs.
DiskPaths == {Join(templateDir, f) : f \in FileNames}
WritablePaths == {Join(templateDir, <<"a.html">>)}

\* The files of the embed.FS: fixed when the program is built.
Embedded(path) == IF Base(path) = <<"a.html">> THEN "v1" ELSE "callf"

\* What reading a path yields: b.fs decides between the embed.FS and the OS.
ReadFile(path) == IF fs = "nil" THEN disk[path] ELSE Embedded(path)

\* ------------------------------------------------------------- the engine

\* template.New(name): no body, no function.
New(name) == [name |-> name, tmpl |-> [x \in TemplateNames |-> Empty], funcs |-> NilFuncMap]

\* t.Funcs(m): the entries of m are added to t's table, replacing the ones
\* of the same identifier.
Funcs(t, m) == [t EXCEPT !.funcs = [i \in Idents |-> IF m[i] # Undef THEN m[i] ELSE @[i]]]

\* Whether src parses in t: a readable text without syntax error whose
\* function calls are all in t's table.
Parses(t, src) == /\ src \in Bodies
                  /\ (src = "callf" => t.funcs["f"] # Undef)

\* tmpl.Parse(src) for the template called name of t's set.
Parse(t, name, src) == [t EXCEPT !.tmpl[name] = src]

\* t.ParseFiles(paths...) and t.ParseFS(fs, paths...): each file is read and
\* parsed as the template called like its base name; the first failure ends it.
RECURSIVE ParseFiles(_, _)
ParseFiles(t, paths) ==
    IF paths = << >> THEN [err |-> FALSE, t |-> t]
    ELSE LET src == ReadFile(Head(paths)) IN
         IF ~Parses(t, src) THEN [err |-> TRUE, t |-> t]
         ELSE ParseFiles(Parse(t, Base(Head(paths)), src), Tail(paths))

\* Execute with the functions looked up in the global FuncMap at the time of
\* the call instead of in the table the template was parsed with.
ExecuteLateBound(t) ==
    LET body == t.tmpl[t.name] IN
    IF body = Empty THEN [err |-> TRUE, out |-> ""]
    ELSE IF body = "callf"
         THEN [err |-> FALSE,
               out |-> IF globalFuncMap["f"] # Undef THEN globalFuncMap["f"] ELSE t.funcs["f"]]
    ELSE [err |-> FALSE, out |-> body]

\* t.Execute(w, data): runs the body called t.Name(); a template without
\* body is an error before anything is written.
Execute(t) ==
    LET body == t.tmpl[t.name] IN
    IF body = Empty THEN [err |-> TRUE, out |-> ""]
    ELSE IF body = "callf" THEN [err |-> FALSE, out |-> t.funcs["f"]]
    ELSE [err |-> FALSE, out |-> body]

\* ---------------------------------------------------------- the registry

NoErr == ""
ErrNoFilenames == "no filenames provided"
ErrNoTemplates == "no templates provided"
ErrAddFailed == "add template failed"
ErrParseFailed == "failed to parse template"
ErrRebuild == "rebuild HTML template failed"
ErrNotFound == "template not found"
ErrExecute == "execute failed"

\* m[k] = v on a Go map.
Put(m, k, v) == [x \in DOMAIN m \cup {k} |-> IF x = k THEN v ELSE m[x]]

\* make(map[...]...)
EmptyMap == [x \in {} |-> NilFuncMap]

\* CompileFileSet with the two Funcs calls in the other order.
CompileFileSetOwnFirst(s) ==
    LET t0 == New(s.Filenames[1])
        t1 == IF s.FuncMap # NilFuncMap THEN Funcs(t0, s.FuncMap) ELSE t0
        t2 == IF globalFuncMap # NilFuncMap THEN Funcs(t1, globalFuncMap) ELSE t1
        filenames == IF templateDir # << >>
                     THEN [i \in 1..Len(s.Filenames) |-> Join(templateDir, s.Filenames[i])]
                     ELSE s.Filenames
    IN ParseFiles(t2, filenames)

\* AddTemplate up to its parse: the template called like the first file name
\* as given, the global FuncMap g it read and then the set's own attached,
\* the file names joined to a non-empty templateDir, and all files parsed.
CompileFileSetWith(g, s) ==
    LET t0 == New(s.Filenames[1])
        t1 == IF g # NilFuncMap THEN Funcs(t0, g) ELSE t0
        t2 == IF s.FuncMap # NilFuncMap THEN Funcs(t1, s.FuncMap) ELSE t1
        filenames == IF templateDir # << >>
                     THEN [i \in 1..Len(s.Filenames) |-> Join(templateDir, s.Filenames[i])]
                     ELSE s.Filenames
    IN ParseFiles(t2, filenames)

\* The same in one caller: the global FuncMap is the one of the call.
CompileFileSet(s) == CompileFileSetWith(globalFuncMap, s)

\* AddTemplate storing the template before it looks at the parse error.
AddTemplateCallStoresFirst(name, s) ==
    IF Len(s.Filenames) = 0
    THEN [err |-> ErrNoFilenames, html |-> html, rerender |-> rerenderTemplatesHTML]
    ELSE LET r == CompileFileSet(s) IN
         [err |-> IF r.err THEN ErrAddFailed ELSE NoErr,
          html |-> Put(html, name, r.t),
          rerender |-> IF debug /\ ~r.err THEN Put(rerenderTemplatesHTML, name, s)
                       ELSE rerenderTemplatesHTML]

\* AddTemplate without its check of len(s.Filenames): the empty set is
\* stored as a template without files.
AddTemplateCallNoLenCheck(name, s) ==
    LET r == IF Len(s.Filenames) = 0 THEN [err |-> FALSE, t |-> New(<<name>>)]
             ELSE CompileFileSet(s) IN
    IF r.err
    THEN [err |-> ErrAddFailed, html |-> html, rerender |-> rerenderTemplatesHTML]
    ELSE [err |-> NoErr,
          html |-> Put(html, name, r.t),
          rerender |-> IF debug THEN Put(rerenderTemplatesHTML, name, s)
                       ELSE rerenderTemplatesHTML]

\* What a call AddTemplate(name, s) returns and leaves in the two maps.
AddTemplateCall(name, s) ==
    IF Len(s.Filenames) = 0
    THEN [err |-> ErrNoFilenames, html |-> html, rerender |-> rerenderTemplatesHTML]
    ELSE LET r == CompileFileSet(s) IN
         IF r.err
         THEN [err |-> ErrAddFailed, html |-> html, rerender |-> rerenderTemplatesHTML]
         ELSE [err |-> NoErr,
               html |-> Put(html, name, r.t),
               rerender |-> IF debug THEN Put(rerenderTemplatesHTML, name, s)
                            ELSE rerenderTemplatesHTML]

\* The same call on a box whose two maps are h and r: what the next call of
\* a loop of calls finds.
AddTemplateOn(h, r, name, s) ==
    IF Len(s.Filenames) = 0
    THEN [err |-> ErrNoFilenames, html |-> h, rerender |-> r]
    ELSE LET c == CompileFileSet(s) IN
         IF c.err
         THEN [err |-> ErrAddFailed, html |-> h, rerender |-> r]
         ELSE [err |-> NoErr,
               html |-> Put(h, name, c.t),
               rerender |-> IF debug THEN Put(r, name, s) ELSE r]

\* The entries of a map[string]FileSet in an order its range loop may visit
\* them in: any order, each key once.
MapFileSets == {s \in FileSets : s.FuncMap = NilFuncMap /\ Len(s.Filenames) <= 1}
MapEntries == [name : Names, s : MapFileSets]
MapOrders == {o \in UNION {[1..n -> MapEntries] : n \in 0..Cardinality(Names)} :
                 \A i, j \in 1..Len(o) : o[i].name = o[j].name => i = j}

\* The loop of AddTemplateMap from maps h and r on: AddTemplate for each
\* entry in turn, and the return at the first error.
RECURSIVE AddTemplateMapFrom(_, _, _)
AddTemplateMapFrom(h, r, order) ==
    IF order = << >> THEN [err |-> NoErr, html |-> h, rerender |-> r]
    ELSE LET x == AddTemplateOn(h, r, Head(order).name, Head(order).s) IN
         IF x.err # NoErr THEN x
         ELSE AddTemplateMapFrom(x.html, x.rerender, Tail(order))

\* AddTemplateMap undoing, at an error, the entries it had registered.
AddTemplateMapCallRollsBack(order) ==
    LET x == AddTemplateMapFrom(html, rerenderTemplatesHTML, order) IN
    IF x.err # NoErr
    THEN [err |-> x.err, html |-> html, rerender |-> rerenderTemplatesHTML]
    ELSE x

\* What a call AddTemplateMap(m) returns and leaves in the two maps when its
\* loop visits the entries of m in this order.
AddTemplateMapCall(order) == AddTemplateMapFrom(html, rerenderTemplatesHTML, order)

\* The loop of AddTemplateRaw: every string parsed, in turn, as the template
\* called like the registry key.
RECURSIVE ParseStrings(_, _)
ParseStrings(t, srcs) ==
    IF srcs = << >> THEN [err |-> FALSE, t |-> t]
    ELSE IF ~Parses(t, Head(srcs)) THEN [err |-> TRUE, t |-> t]
    ELSE ParseStrings(Parse(t, t.name, Head(srcs)), Tail(srcs))

\* AddTemplateRaw up to the end of its loop, with the global FuncMap g.
CompileTemplateSetWith(g, name, s) ==
    LET t0 == New(<<name>>)
        t1 == IF g # NilFuncMap THEN Funcs(t0, g) ELSE t0
        t2 == IF s.FuncMap # NilFuncMap THEN Funcs(t1, s.FuncMap) ELSE t1
    IN ParseStrings(t2, s.Templates)

CompileTemplateSet(name, s) == CompileTemplateSetWith(globalFuncMap, name, s)

\* What a call AddTemplateRaw(name, s) returns and leaves in b.html.
AddTemplateRawCall(name, s) ==
    IF Len(s.Templates) = 0
    THEN [err |-> ErrNoTemplates, html |-> html]
    ELSE LET r == CompileTemplateSet(name, s) IN
         IF r.err THEN [err |-> ErrParseFailed, html |-> html]
         ELSE [err |-> NoErr, html |-> Put(html, name, r.t)]

\* The rebuild condition with the test of b.fs inverted, and without it.
RebuildsOnEmbed(name) == debug /\ name \in DOMAIN rerenderTemplatesHTML /\ fs # "nil"
RebuildsAnyFS(name) == debug /\ name \in DOMAIN rerenderTemplatesHTML

\* Whether RenderHTML(name) rebuilds the template first.
Rebuilds(name) == debug /\ name \in DOMAIN rerenderTemplatesHTML /\ fs = "nil"

\* RenderHTML without its check of the lookup: a miss executes the zero
\* template.
RenderHTMLCallNoOkCheck(name) ==
    LET r == IF Rebuilds(name)
             THEN AddTemplateCall(name, rerenderTemplatesHTML[name])
             ELSE [err |-> NoErr, html |-> html, rerender |-> rerenderTemplatesHTML]
    IN IF r.err # NoErr
       THEN [err |-> ErrRebuild, out |-> "", executed |-> FALSE,
             html |-> r.html, rerender |-> r.rerender]
       ELSE LET e == Execute(IF name \in DOMAIN r.html THEN r.html[name] ELSE New(<<name>>)) IN
            [err |-> IF e.err THEN ErrExecute ELSE NoErr, out |-> e.out,
             executed |-> TRUE, html |-> r.html, rerender |-> r.rerender]

\* RenderHTML going on to the stored template when the rebuild fails.
RenderHTMLCallIgnoresRebuildError(name) ==
    LET r == IF Rebuilds(name)
             THEN AddTemplateCall(name, rerenderTemplatesHTML[name])
             ELSE [err |-> NoErr, html |-> html, rerender |-> rerenderTemplatesHTML]
    IN IF name \notin DOMAIN r.html
       THEN [err |-> ErrNotFound, out |-> "", executed |-> FALSE,
             html |-> r.html, rerender |-> r.rerender]
       ELSE LET e == Execute(r.html[name]) IN
            [err |-> IF e.err THEN ErrExecute ELSE NoErr, out |-> e.out,
             executed |-> TRUE, html |-> r.html, rerender |-> r.rerender]

\* What a call RenderHTML(w, name, data) returns, writes to w and leaves in
\* the two maps.
RenderHTMLCall(name) ==
    LET r == IF Rebuilds(name)
             THEN AddTemplateCall(name, rerenderTemplatesHTML[name])
             ELSE [err |-> NoErr, html |-> html, rerender |-> rerenderTemplatesHTML]
    IN IF r.err # NoErr
       THEN [err |-> ErrRebuild, out |-> "", executed |-> FALSE,
             html |-> r.html, rerender |-> r.rerender]
       ELSE IF name \notin DOMAIN r.html
       THEN [err |-> ErrNotFound, out |-> "", executed |-> FALSE,
             html |-> r.html, rerender |-> r.rerender]
       ELSE LET e == Execute(r.html[name]) IN
            [err |-> IF e.err THEN ErrExecute ELSE NoErr, out |-> e.out,
             executed |-> TRUE, html |-> r.html, rerender |-> r.rerender]

\* ------------------------------------------------------------- goroutines

Threads == {"t1", "t2"}

\* A sync.RWMutex: the goroutine that holds it for writing, if any, and the
\* goroutines that hold it for reading.
Unlocked == [w |-> "", r |-> {}]
CanLock(m) == m.w = "" /\ m.r = {}
CanRLock(m) == m.w = ""

\* A goroutine is in no call (idle), has returned from one (done, with what
\* the call returned and wrote), or is at a step of op(name, s): g is the
\* global FuncMap it read and t the template it holds.
NoSet == [Filenames |-> << >>, FuncMap |-> NilFuncMap]
NoTemplate == New(<< >>)
Idle == [pc |-> "idle", op |-> "", name |-> "", s |-> NoSet, g |-> NilFuncMap,
         t |-> NoTemplate, err |-> NoErr, out |-> ""]
At(pc, op, name, s, g, t) ==
    [pc |-> pc, op |-> op, name |-> name, s |-> s, g |-> g, t |-> t,
     err |-> NoErr, out |-> ""]
Done(op, name, err, out) ==
    [pc |-> "done", op |-> op, name |-> name, s |-> NoSet, g |-> NilFuncMap,
     t |-> NoTemplate, err |-> err, out |-> out]
Move(c, pc) == [c EXCEPT !.pc = pc]

\* The call of goroutine t; the box apart from the maps and the locks.
Set(t, c) == th' = [th EXCEPT ![t] = c]
static == <<cfg, debug, fs, templateDir, disk, started, expected, objects, htmlRef, loc,
            rerenderMade, panicked>>

\* func (b *Box) SetGlobalFuncMap(g FuncMap): the call, and its assignment.
CallSetGlobalFuncMap(t, g) ==
    /\ th[t].pc = "idle"
    /\ Set(t, At("sg_store", "SetGlobalFuncMap", "", NoSet, g, NoTemplate))
    /\ UNCHANGED <<static, globalFuncMap, html, rerenderTemplatesHTML, mu, muHTMLRerender>>

SGStore(t) ==
    /\ th[t].pc = "sg_store"
    /\ globalFuncMap' = th[t].g
    /\ Set(t, Done("SetGlobalFuncMap", "", NoErr, ""))
    /\ UNCHANGED <<static, html, rerenderTemplatesHTML, mu, muHTMLRerender>>

\* func (b *Box) AddTemplate(name, s): the call and its check of the list.
CallAddTemplate(t, name, s) ==
    /\ th[t].pc = "idle"
    /\ Set(t, IF Len(s.Filenames) = 0
              THEN Done("AddTemplate", name, ErrNoFilenames, "")
              ELSE At("at_funcs", "AddTemplate", name, s, NilFuncMap, NoTemplate))
    /\ UNCHANGED <<static, globalFuncMap, html, rerenderTemplatesHTML, mu, muHTMLRerender>>

\* An AddTemplate that takes b.mu before it compiles and keeps it until the
\* entry is written.
ATFuncsUnderLock(t) ==
    /\ th[t].pc = "at_funcs"
    /\ CanLock(mu)
    /\ mu' = [mu EXCEPT !.w = t]
    /\ Set(t, [Move(th[t], "at_parse") EXCEPT !.g = globalFuncMap])
    /\ UNCHANGED <<static, globalFuncMap, html, rerenderTemplatesHTML, muHTMLRerender>>

\* template.New and the read of b.globalFuncMap for t.Funcs.
ATFuncs(t) ==
    /\ th[t].pc = "at_funcs"
    /\ Set(t, [Move(th[t], "at_parse") EXCEPT !.g = globalFuncMap])
    /\ UNCHANGED <<static, globalFuncMap, html, rerenderTemplatesHTML, mu, muHTMLRerender>>

\* A rebuild that takes the name out of b.html while it parses.
ATParseEvicts(t) ==
    /\ th[t].pc = "at_parse"
    /\ LET r == CompileFileSetWith(th[t].g, th[t].s) IN
       Set(t, IF r.err
              THEN Done(th[t].op, th[t].name,
                        IF th[t].op = "RenderHTML" THEN ErrRebuild ELSE ErrAddFailed, "")
              ELSE [Move(th[t], "at_lock") EXCEPT !.t = r.t])
    /\ html' = [n \in DOMAIN html \ {th[t].name} |-> html[n]]
    /\ UNCHANGED <<static, globalFuncMap, rerenderTemplatesHTML, mu, muHTMLRerender>>

\* The parse of the files, and the return of its error: from AddTemplate, or
\* from the RenderHTML that called it.
ATParse(t) ==
    /\ th[t].pc = "at_parse"
    /\ LET r == CompileFileSetWith(th[t].g, th[t].s) IN
       Set(t, IF r.err
              THEN Done(th[t].op, th[t].name,
                        IF th[t].op = "RenderHTML" THEN ErrRebuild ELSE ErrAddFailed, "")
              ELSE [Move(th[t], "at_lock") EXCEPT !.t = r.t])
    /\ UNCHANGED <<static, globalFuncMap, html, rerenderTemplatesHTML, mu, muHTMLRerender>>

\* b.mu.Lock()
ATLock(t) ==
    /\ th[t].pc = "at_lock"
    /\ CanLock(mu)
    /\ mu' = [mu EXCEPT !.w = t]
    /\ Set(t, Move(th[t], "at_store"))
    /\ UNCHANGED <<static, globalFuncMap, html, rerenderTemplatesHTML, muHTMLRerender>>

\* Where AddTemplate returns nil to: its caller, or the RenderHTML it is in.
ATReturn(c) ==
    IF c.op = "RenderHTML" THEN At("rh_lock", c.op, c.name, NoSet, NilFuncMap, NoTemplate)
    ELSE Done(c.op, c.name, NoErr, "")

\* b.html[name] = t; b.mu.Unlock(); and the test of b.cfg.Debug.
ATStore(t) ==
    /\ th[t].pc = "at_store"
    /\ html' = Put(html, th[t].name, th[t].t)
    /\ mu' = Unlocked
    /\ Set(t, IF debug THEN Move(th[t], "at_rlock") ELSE ATReturn(th[t]))
    /\ UNCHANGED <<static, globalFuncMap, rerenderTemplatesHTML, muHTMLRerender>>

\* b.muHTMLRerender.Lock()
ATRerenderLock(t) ==
    /\ th[t].pc = "at_rlock"
    /\ CanLock(muHTMLRerender)
    /\ muHTMLRerender' = [muHTMLRerender EXCEPT !.w = t]
    /\ Set(t, Move(th[t], "at_rstore"))
    /\ UNCHANGED <<static, globalFuncMap, html, rerenderTemplatesHTML, mu>>

\* b.rerenderTemplatesHTML[name] = s; b.muHTMLRerender.Unlock(); return nil
ATRerenderStore(t) ==
    /\ th[t].pc = "at_rstore"
    /\ rerenderTemplatesHTML' = Put(rerenderTemplatesHTML, th[t].name, th[t].s)
    /\ muHTMLRerender' = Unlocked
    /\ Set(t, ATReturn(th[t]))
    /\ UNCHANGED <<static, globalFuncMap, html, mu>>

\* func (b *Box) AddTemplateRaw(name, s): the call and its check of the list.
CallAddTemplateRaw(t, name, s) ==
    /\ th[t].pc = "idle"
    /\ Set(t, IF Len(s.Templates) = 0
              THEN Done("AddTemplateRaw", name, ErrNoTemplates, "")
              ELSE At("raw_funcs", "AddTemplateRaw", name, s, NilFuncMap, NoTemplate))
    /\ UNCHANGED <<static, globalFuncMap, html, rerenderTemplatesHTML, mu, muHTMLRerender>>

\* template.New and the read of b.globalFuncMap for t.Funcs.
RawFuncs(t) ==
    /\ th[t].pc = "raw_funcs"
    /\ Set(t, [Move(th[t], "raw_parse") EXCEPT !.g = globalFuncMap])
    /\ UNCHANGED <<static, globalFuncMap, html, rerenderTemplatesHTML, mu, muHTMLRerender>>

\* The loop over s.Templates.
RawParse(t) ==
    /\ th[t].pc = "raw_parse"
    /\ LET r == CompileTemplateSetWith(th[t].g, th[t].name, th[t].s) IN
       Set(t, IF r.err THEN Done(th[t].op, th[t].name, ErrParseFailed, "")
              ELSE [Move(th[t], "raw_lock") EXCEPT !.t = r.t])
    /\ UNCHANGED <<static, globalFuncMap, html, rerenderTemplatesHTML, mu, muHTMLRerender>>

\* b.mu.Lock()
RawLock(t) ==
    /\ th[t].pc = "raw_lock"
    /\ CanLock(mu)
    /\ mu' = [mu EXCEPT !.w = t]
    /\ Set(t, Move(th[t], "raw_store"))
    /\ UNCHANGED <<static, globalFuncMap, html, rerenderTemplatesHTML, muHTMLRerender>>

\* An AddTemplateRaw that stores its template in a new map: the names
\* registered before are gone.
RawStoreEvicts(t) ==
    /\ th[t].pc = "raw_store"
    /\ html' = Put(EmptyMap, th[t].name, th[t].t)
    /\ mu' = Unlocked
    /\ Set(t, Done(th[t].op, th[t].name, NoErr, ""))
    /\ UNCHANGED <<static, globalFuncMap, rerenderTemplatesHTML, muHTMLRerender>>

\* b.html[name] = t; b.mu.Unlock(); return nil
RawStore(t) ==
    /\ th[t].pc = "raw_store"
    /\ html' = Put(html, th[t].name, th[t].t)
    /\ mu' = Unlocked
    /\ Set(t, Done(th[t].op, th[t].name, NoErr, ""))
    /\ UNCHANGED <<static, globalFuncMap, rerenderTemplatesHTML, muHTMLRerender>>

\* func (b *Box) RenderHTML(w, name, data): the call and its test of
\* b.cfg.Debug.
CallRenderHTML(t, name) ==
    /\ th[t].pc = "idle"
    /\ Set(t, At(IF debug THEN "rh_rrlock" ELSE "rh_lock", "RenderHTML", name,
                 NoSet, NilFuncMap, NoTemplate))
    /\ UNCHANGED <<static, globalFuncMap, html, rerenderTemplatesHTML, mu, muHTMLRerender>>

\* b.muHTMLRerender.RLock()
RHRerenderRLock(t) ==
    /\ th[t].pc = "rh_rrlock"
    /\ CanRLock(muHTMLRerender)
    /\ muHTMLRerender' = [muHTMLRerender EXCEPT !.r = @ \cup {t}]
    /\ Set(t, Move(th[t], "rh_rread"))
    /\ UNCHANGED <<static, globalFuncMap, html, rerenderTemplatesHTML, mu>>

\* s1, ok := b.rerenderTemplatesHTML[name]; RUnlock; and with ok on the OS
\* filesystem the call b.AddTemplate(name, s1), whose list is not empty.
RHRerenderRead(t) ==
    /\ th[t].pc = "rh_rread"
    /\ muHTMLRerender' = [muHTMLRerender EXCEPT !.r = @ \ {t}]
    /\ Set(t, IF th[t].name \in DOMAIN rerenderTemplatesHTML /\ fs = "nil"
              THEN [Move(th[t], "at_funcs") EXCEPT !.s = rerenderTemplatesHTML[th[t].name]]
              ELSE Move(th[t], "rh_lock"))
    /\ UNCHANGED <<static, globalFuncMap, html, rerenderTemplatesHTML, mu>>

\* b.mu.RLock()
RHRLock(t) ==
    /\ th[t].pc = "rh_lock"
    /\ CanRLock(mu)
    /\ mu' = [mu EXCEPT !.r = @ \cup {t}]
    /\ Set(t, Move(th[t], "rh_read"))
    /\ UNCHANGED <<static, globalFuncMap, html, rerenderTemplatesHTML, muHTMLRerender>>

\* A RenderHTML that returns "not found" without b.mu.RUnlock().
RHReadKeepsLock(t) ==
    /\ th[t].pc = "rh_read"
    /\ mu' = IF th[t].name \in DOMAIN html THEN [mu EXCEPT !.r = @ \ {t}] ELSE mu
    /\ Set(t, IF th[t].name \in DOMAIN html
              THEN [Move(th[t], "rh_exec") EXCEPT !.t = html[th[t].name]]
              ELSE Done(th[t].op, th[t].name, ErrNotFound, ""))
    /\ UNCHANGED <<static, globalFuncMap, html, rerenderTemplatesHTML, muHTMLRerender>>

\* t, ok := b.html[name]; RUnlock; and the return of "not found".
RHRead(t) ==
    /\ th[t].pc = "rh_read"
    /\ mu' = [mu EXCEPT !.r = @ \ {t}]
    /\ Set(t, IF th[t].name \in DOMAIN html
              THEN [Move(th[t], "rh_exec") EXCEPT !.t = html[th[t].name]]
              ELSE Done(th[t].op, th[t].name, ErrNotFound, ""))
    /\ UNCHANGED <<static, globalFuncMap, html, rerenderTemplatesHTML, muHTMLRerender>>

\* return t.Execute(w, data)
RHExecute(t) ==
    /\ th[t].pc = "rh_exec"
    /\ LET e == Execute(th[t].t) IN
       Set(t, Done(th[t].op, th[t].name, IF e.err THEN ErrExecute ELSE NoErr, e.out))
    /\ UNCHANGED <<static, globalFuncMap, html, rerenderTemplatesHTML, mu, muHTMLRerender>>

\* The caller has the result and is free for its next call.
Return(t) ==
    /\ th[t].pc = "done"
    /\ Set(t, Idle)
    /\ UNCHANGED <<static, globalFuncMap, html, rerenderTemplatesHTML, mu, muHTMLRerender>>

\* The steps of a RenderHTML call, its rebuild in debug mode included.
RenderStep(t) ==
    \/ RHRerenderRLock(t) \/ RHRerenderRead(t)
    \/ ATFuncs(t) \/ ATParse(t) \/ ATLock(t) \/ ATStore(t)
    \/ ATRerenderLock(t) \/ ATRerenderStore(t)
    \/ RHRLock(t) \/ RHRead(t) \/ RHExecute(t)
    \/ Return(t)

\* The access to the box's shared state that a goroutine at c is about to
\* make: the field, and whether it writes it.
NoAccess == [v |-> "", w |-> FALSE]
Access(c) ==
    CASE c.pc = "sg_store" -> [v |-> "globalFuncMap", w |-> TRUE]
      [] c.pc \in {"at_funcs", "raw_funcs"} -> [v |-> "globalFuncMap", w |-> FALSE]
      [] c.pc \in {"at_store", "raw_store"} -> [v |-> "html", w |-> TRUE]
      [] c.pc = "rh_read" -> [v |-> "html", w |-> FALSE]
      [] c.pc = "at_rstore" -> [v |-> "rerenderTemplatesHTML", w |-> TRUE]
      [] c.pc = "rh_rread" -> [v |-> "rerenderTemplatesHTML", w |-> FALSE]
      [] OTHER -> NoAccess

\* The goroutine holds the mutex of the field: mu is the mutex of html,
\* muHTMLRerender that of rerenderTemplatesHTML, and globalFuncMap has none.
Holds(t, v) ==
    CASE v = "html" -> mu.w = t \/ t \in mu.r
      [] v = "rerenderTemplatesHTML" -> muHTMLRerender.w = t \/ t \in muHTMLRerender.r
      [] OTHER -> FALSE

\* Two goroutines are about to access one field, one of them writing it, and
\* its mutex does not order them.
DataRace(t1, t2) ==
    /\ t1 # t2
    /\ Access(th[t1]).v # ""
    /\ Access(th[t1]).v = Access(th[t2]).v
    /\ Access(th[t1]).w \/ Access(th[t2]).w
    /\ ~(Holds(t1, Access(th[t1]).v) /\ Holds(t2, Access(th[t2]).v))

\* A step of goroutine t inside a call.
Step(t) ==
    \/ SGStore(t)
    \/ ATFuncs(t) \/ ATParse(t) \/ ATLock(t) \/ ATStore(t)
    \/ ATRerenderLock(t) \/ ATRerenderStore(t)
    \/ RawFuncs(t) \/ RawParse(t) \/ RawLock(t) \/ RawStore(t)
    \/ RHRerenderRLock(t) \/ RHRerenderRead(t) \/ RHRLock(t) \/ RHRead(t) \/ RHExecute(t)
    \/ Return(t)

\* ---------------------------------------------------------------- objects

\* b.html holds pointers.  Here a template is an object at an address: what
\* template.New allocates, what Funcs and Parse write to, what b.html[name]
\* and the local t of a call point to.  There are as many addresses as
\* objects can be in use at once, one per name and one per goroutine; an
\* object nothing points to any more is collected and its address is free.
Addrs == 1..(Cardinality(Names) + Cardinality(Threads))
NoAddr == 0

\* A goroutine at this level: t is the address its local t holds, seen the
\* content the object had when RenderHTML fetched it from b.html.
PIdle == [pc |-> "idle", op |-> "", name |-> "", s |-> NoSet, t |-> NoAddr,
          seen |-> NoTemplate, err |-> NoErr, out |-> ""]
PAt(pc, op, name, s) == [PIdle EXCEPT !.pc = pc, !.op = op, !.name = name, !.s = s]
PDone(c, err, out) ==
    [PIdle EXCEPT !.pc = "done", !.op = c.op, !.name = c.name, !.err = err, !.out = out]
PSet(t, c) == loc' = [loc EXCEPT ![t] = c]

\* The addresses b.html points to, the ones in use, and the one template.New
\* returns next.
Stored == {htmlRef[n] : n \in DOMAIN htmlRef}
InUse == Stored \cup {loc[t].t : t \in Threads}
Fresh == CHOOSE a \in Addrs : a \notin InUse /\ \A b \in Addrs : b < a => b \in InUse

\* The objects after a step that left them as o: the ones nothing points to
\* any more are collected.
Collected(o) == objects' = [a \in Addrs |-> IF a \in InUse' THEN o[a] ELSE NoTemplate]

\* What the calls at this level leave alone.
values == <<cfg, debug, fs, templateDir, globalFuncMap, html, disk, mu, muHTMLRerender,
            th, started, expected, rerenderMade, panicked>>

\* The calls, with their checks of the list.
PCallAddTemplate(t, name, s) ==
    /\ loc[t].pc = "idle"
    /\ PSet(t, IF Len(s.Filenames) = 0 THEN PDone(PAt("", "AddTemplate", name, s), ErrNoFilenames, "")
               ELSE PAt("compile", "AddTemplate", name, s))
    /\ UNCHANGED <<values, rerenderTemplatesHTML, objects, htmlRef>>

PCallAddTemplateRaw(t, name, s) ==
    /\ loc[t].pc = "idle"
    /\ PSet(t, IF Len(s.Templates) = 0 THEN PDone(PAt("", "AddTemplateRaw", name, s), ErrNoTemplates, "")
               ELSE PAt("compile", "AddTemplateRaw", name, s))
    /\ UNCHANGED <<values, rerenderTemplatesHTML, objects, htmlRef>>

PCallRenderHTML(t, name) ==
    /\ loc[t].pc = "idle"
    /\ PSet(t, PAt(IF debug THEN "rerender" ELSE "lookup", "RenderHTML", name, NoSet))
    /\ UNCHANGED <<values, rerenderTemplatesHTML, objects, htmlRef>>

\* What the call compiles: the files of a FileSet, for AddTemplate and for
\* the rebuild of RenderHTML, or the strings of a TemplateSet.
PCompiled(c) ==
    IF c.op = "AddTemplateRaw" THEN CompileTemplateSet(c.name, c.s) ELSE CompileFileSet(c.s)
PCompileError(c) ==
    CASE c.op = "AddTemplateRaw" -> ErrParseFailed
      [] c.op = "RenderHTML" -> ErrRebuild
      [] OTHER -> ErrAddFailed

\* A compilation that parses into the object b.html holds for the name,
\* when it holds one, instead of into a new one.
PCompileInPlace(t) ==
    /\ loc[t].pc = "compile"
    /\ LET r == PCompiled(loc[t])
           a == IF loc[t].name \in DOMAIN htmlRef THEN htmlRef[loc[t].name] ELSE Fresh IN
       /\ PSet(t, IF r.err THEN PDone(loc[t], PCompileError(loc[t]), "")
                  ELSE [loc[t] EXCEPT !.pc = "store", !.t = a])
       /\ htmlRef' = htmlRef
       /\ Collected([objects EXCEPT ![a] = r.t])
    /\ UNCHANGED <<values, rerenderTemplatesHTML>>

\* t := template.New(...), t.Funcs, t.ParseFiles / t.Parse: a new object,
\* written to until the parse ends; after an error nothing points to it.
PCompile(t) ==
    /\ loc[t].pc = "compile"
    /\ LET r == PCompiled(loc[t])
           a == Fresh IN
       /\ PSet(t, IF r.err THEN PDone(loc[t], PCompileError(loc[t]), "")
                  ELSE [loc[t] EXCEPT !.pc = "store", !.t = a])
       /\ htmlRef' = htmlRef
       /\ Collected([objects EXCEPT ![a] = r.t])
    /\ UNCHANGED <<values, rerenderTemplatesHTML>>

\* Where a call goes on after its last write to the maps.
PAfterAdd(c) ==
    IF c.op = "RenderHTML" THEN PAt("lookup", c.op, c.name, NoSet) ELSE PDone(c, NoErr, "")

\* b.mu.Lock(); b.html[name] = t; b.mu.Unlock()
PStore(t) ==
    /\ loc[t].pc = "store"
    /\ htmlRef' = Put(htmlRef, loc[t].name, loc[t].t)
    /\ PSet(t, IF debug /\ loc[t].op # "AddTemplateRaw"
               THEN [loc[t] EXCEPT !.pc = "record", !.t = NoAddr]
               ELSE PAfterAdd(loc[t]))
    /\ Collected(objects)
    /\ UNCHANGED <<values, rerenderTemplatesHTML>>

\* b.muHTMLRerender.Lock(); b.rerenderTemplatesHTML[name] = s; Unlock()
PRecord(t) ==
    /\ loc[t].pc = "record"
    /\ rerenderTemplatesHTML' = Put(rerenderTemplatesHTML, loc[t].name, loc[t].s)
    /\ PSet(t, PAfterAdd(loc[t]))
    /\ UNCHANGED <<values, objects, htmlRef>>

\* RLock; s1, ok := b.rerenderTemplatesHTML[name]; RUnlock; and the call of
\* b.AddTemplate(name, s1) when ok on the OS filesystem.
PRerenderRead(t) ==
    /\ loc[t].pc = "rerender"
    /\ PSet(t, IF loc[t].name \in DOMAIN rerenderTemplatesHTML /\ fs = "nil"
               THEN PAt("compile", "RenderHTML", loc[t].name, rerenderTemplatesHTML[loc[t].name])
               ELSE [loc[t] EXCEPT !.pc = "lookup"])
    /\ UNCHANGED <<values, rerenderTemplatesHTML, objects, htmlRef>>

\* RLock; t, ok := b.html[name]; RUnlock
PLookup(t) ==
    /\ loc[t].pc = "lookup"
    /\ PSet(t, IF loc[t].name \in DOMAIN htmlRef
               THEN [loc[t] EXCEPT !.pc = "exec", !.t = htmlRef[loc[t].name],
                                   !.seen = objects[htmlRef[loc[t].name]]]
               ELSE PDone(loc[t], ErrNotFound, ""))
    /\ UNCHANGED <<values, rerenderTemplatesHTML, objects, htmlRef>>

\* return t.Execute(w, data): the object is read when it runs.
PExecute(t) ==
    /\ loc[t].pc = "exec"
    /\ LET e == Execute(objects[loc[t].t]) IN
       PSet(t, [PDone(loc[t], IF e.err THEN ErrExecute ELSE NoErr, e.out)
                   EXCEPT !.seen = loc[t].seen])
    /\ htmlRef' = htmlRef
    /\ Collected(objects)
    /\ UNCHANGED <<values, rerenderTemplatesHTML>>

PReturn(t) ==
    /\ loc[t].pc = "done"
    /\ PSet(t, PIdle)
    /\ UNCHANGED <<values, rerenderTemplatesHTML, objects, htmlRef>>

\* ---------------------------------------------------------------- actions

SetGlobalFuncMap(g) ==
    /\ globalFuncMap' = g
    /\ UNCHANGED <<cfg, debug, fs, templateDir, html, rerenderTemplatesHTML, disk>>
    /\ UNCHANGED conc

AddTemplate(name, s) ==
    LET r == AddTemplateCall(name, s) IN
    /\ html' = r.html
    /\ rerenderTemplatesHTML' = r.rerender
    /\ UNCHANGED <<cfg, debug, fs, templateDir, globalFuncMap, disk>>
    /\ UNCHANGED conc

AddTemplateMap(order) ==
    LET r == AddTemplateMapCall(order) IN
    /\ html' = r.html
    /\ rerenderTemplatesHTML' = r.rerender
    /\ UNCHANGED <<cfg, debug, fs, templateDir, globalFuncMap, disk>>
    /\ UNCHANGED conc

AddTemplateRaw(name, s) ==
    LET r == AddTemplateRawCall(name, s) IN
    /\ html' = r.html
    /\ UNCHANGED <<cfg, debug, fs, templateDir, globalFuncMap, rerenderTemplatesHTML, disk>>
    /\ UNCHANGED conc

RenderHTML(name) ==
    LET r == RenderHTMLCall(name) IN
    /\ html' = r.html
    /\ rerenderTemplatesHTML' = r.rerender
    /\ UNCHANGED <<cfg, debug, fs, templateDir, globalFuncMap, disk>>
    /\ UNCHANGED conc

\* The environment: a file of the template directory is rewritten.
WriteFile(path, c) ==
    /\ disk[path] # c
    /\ disk' = [disk EXCEPT ![path] = c]
    /\ UNCHANGED <<cfg, debug, fs, templateDir, globalFuncMap, html, rerenderTemplatesHTML>>
    /\ UNCHANGED conc

\* The *Config a caller passes: nil, or the address of a Config of its own;
\* and the package's defaultConfig, whose Debug is false.
ConfigArgs == {"nil", "caller"}
defaultConfigDebugOn == [Debug |-> TRUE]
defaultConfig == [Debug |-> FALSE]

\* The *embed.FS a caller passes, the directories it names, and the ones
\* os.Stat finds: the empty path is not one of them.
FSArgs == {"nil", "embed"}
DirArgs == TemplateDirs \cup {<<"nodir">>}
Stat(dir) == dir = <<"tpl">>

\* What a constructor returns: an error and no Box, or a Box with the
\* Config it keeps, empty b.html, and b.rerenderTemplatesHTML made in debug.
ErrNilFS == "embed.FS cannot be nil"
ErrNoDir == "template directory does not exist"
NoBox(err) ==
    [err |-> err, cfg |-> "nil", debug |-> FALSE, fs |-> "nil", templateDir |-> << >>,
     html |-> EmptyMap, rerender |-> EmptyMap, made |-> FALSE]
NewBox(c, d, f, dir) ==
    [err |-> NoErr, cfg |-> c, debug |-> d, fs |-> f, templateDir |-> dir,
     html |-> EmptyMap, rerender |-> EmptyMap, made |-> d]

\* NewBoxFromFSDir(fs, templateDir, cfg), the caller's Config having Debug d.
NewBoxFromFSDir(f, dir, c, d) ==
    LET c1 == IF c = "nil" THEN "default" ELSE c
        d1 == IF c = "nil" THEN defaultConfig.Debug ELSE d IN
    IF f = "nil" THEN NoBox(ErrNilFS) ELSE NewBox(c1, d1, f, dir)

\* NewBoxFromOSDir(templateDir, cfg), the caller's Config having Debug d.
NewBoxFromOSDir(dir, c, d) ==
    LET c1 == IF c = "nil" THEN "default" ELSE c
        d1 == IF c = "nil" THEN defaultConfig.Debug ELSE d IN
    IF ~Stat(dir) THEN NoBox(ErrNoDir) ELSE NewBox(c1, d1, "nil", dir)

\* b.Config() and b.TemplateDir()
Config == [ptr |-> cfg, Debug |-> debug]
TemplateDir == templateDir

\* The box b is the one the program has.
IsBox(b) ==
    /\ b.err = NoErr
    /\ cfg = b.cfg /\ debug = b.debug /\ fs = b.fs /\ templateDir = b.templateDir
    /\ html = b.html /\ rerenderTemplatesHTML = b.rerender /\ rerenderMade = b.made

\* A constructor has returned a Box, no global FuncMap is set yet, and the
\* files of the template directory are there.
Init ==
    /\ \/ \E dir \in DirArgs, c \in ConfigArgs, d \in BOOLEAN :
             IsBox(NewBoxFromOSDir(dir, c, d))
       \/ \E f \in FSArgs, dir \in TemplateDirs, c \in ConfigArgs, d \in BOOLEAN :
             IsBox(NewBoxFromFSDir(f, dir, c, d))
    /\ globalFuncMap = NilFuncMap
    /\ disk = [p \in {Join(templateDir, f) : f \in FileNames} |-> "v1"]
    /\ mu = Unlocked
    /\ muHTMLRerender = Unlocked
    /\ th = [t \in Threads |-> Idle]
    /\ started = FALSE
    /\ expected = [n \in Names |-> [err |-> NoErr, out |-> ""]]
    /\ objects = [a \in Addrs |-> NoTemplate]
    /\ htmlRef = EmptyMap
    /\ loc = [t \in Threads |-> PIdle]
    /\ panicked = FALSE

Next ==
    \/ \E g \in GlobalFuncMaps : SetGlobalFuncMap(g)
    \/ \E name \in Names, s \in FileSets : AddTemplate(name, s)
    \/ \E order \in MapOrders : AddTemplateMap(order)
    \/ \E name \in Names, s \in TemplateSets : AddTemplateRaw(name, s)
    \/ \E name \in Names : RenderHTML(name)
    \/ \E path \in WritablePaths, c \in Contents : WriteFile(path, c)

Spec == Init /\ [][Next]_vars

\* The sets the goroutines register: the file a.html with and without a
\* FuncMap of its own, and one static string.
ConcFileSets == {s \in FileSets : s.Filenames = << <<"a.html">> >>}
RaceFileSets == {s \in ConcFileSets : s.FuncMap = NilFuncMap}
ConcTemplateSets == {s \in TemplateSets : s.Templates = <<"v1">> /\ s.FuncMap = NilFuncMap}

\* Any calls from any goroutines, in any interleaving of their steps.
NextConc ==
    \/ \E t \in Threads, g \in GlobalFuncMaps : CallSetGlobalFuncMap(t, g)
    \/ \E t \in Threads, name \in Names, s \in RaceFileSets : CallAddTemplate(t, name, s)
    \/ \E t \in Threads, name \in Names, s \in ConcTemplateSets : CallAddTemplateRaw(t, name, s)
    \/ \E t \in Threads, name \in Names : CallRenderHTML(t, name)
    \/ \E t \in Threads : Step(t)

SpecConc == Init /\ [][NextConc]_vars

\* The steps of AddTemplate and RenderHTML calls.
RegisterStep(t) ==
    \/ ATFuncs(t) \/ ATParse(t) \/ ATLock(t) \/ ATStore(t)
    \/ ATRerenderLock(t) \/ ATRerenderStore(t)
    \/ RHRerenderRLock(t) \/ RHRerenderRead(t)
    \/ RHRLock(t) \/ RHRead(t) \/ RHExecute(t)
    \/ Return(t)

\* Goroutines that register file sets, a.html with and without a FuncMap
\* of its own, and render, in any interleaving of their steps.
NextRegister ==
    \/ \E t \in Threads, name \in Names, s \in ConcFileSets : CallAddTemplate(t, name, s)
    \/ \E t \in Threads, name \in Names : CallRenderHTML(t, name)
    \/ \E t \in Threads : RegisterStep(t)

SpecRegister == Init /\ [][NextRegister]_vars

\* What a render of each name returns when it is the only call running.
SingleThreaded == [n \in Names |-> [err |-> RenderHTMLCall(n).err, out |-> RenderHTMLCall(n).out]]

\* The caller stops registering, with both names registered, and from here
\* on only renders.
Start ==
    /\ ~started
    /\ Names \subseteq DOMAIN html
    /\ started' = TRUE
    /\ expected' = SingleThreaded
    /\ UNCHANGED <<cfg, debug, fs, templateDir, globalFuncMap, html, rerenderTemplatesHTML,
                   disk, mu, muHTMLRerender, th, objects, htmlRef, loc,
                   rerenderMade, panicked>>

\* The caller sets the box up call after call, and then goroutines render
\* concurrently while no other call is made and no file changes.
NextRender ==
    \/ \E g \in GlobalFuncMaps : ~started /\ SetGlobalFuncMap(g)
    \/ \E name \in Names, s \in ConcFileSets : ~started /\ AddTemplate(name, s)
    \/ \E name \in Names, s \in ConcTemplateSets : ~started /\ AddTemplateRaw(name, s)
    \/ \E path \in WritablePaths, c \in Contents : ~started /\ WriteFile(path, c)
    \/ Start
    \/ \E t \in Threads, name \in Names : started /\ CallRenderHTML(t, name)
    \/ \E t \in Threads : RenderStep(t)

SpecRender == Init /\ [][NextRender]_vars

\* What is registered at the level of objects: one name, from the file
\* a.html and from a string that calls a function of the set's own.
ObjectNames == {"a"}
ObjectTemplateSets ==
    {s \in TemplateSets : s.Templates = <<"callf">> /\ s.FuncMap # NilFuncMap}

\* Any calls from any goroutines, seen at the level of objects.
NextObjects ==
    \/ \E t \in Threads, name \in ObjectNames, s \in RaceFileSets : PCallAddTemplate(t, name, s)
    \/ \E t \in Threads, name \in ObjectNames, s \in ObjectTemplateSets : PCallAddTemplateRaw(t, name, s)
    \/ \E t \in Threads, name \in ObjectNames : PCallRenderHTML(t, name)
    \/ \E t \in Threads :
          \/ PCompile(t) \/ PStore(t) \/ PRecord(t)
          \/ PRerenderRead(t) \/ PLookup(t) \/ PExecute(t) \/ PReturn(t)

SpecObjects == Init /\ [][NextObjects]_vars

\* The calls on one name under fair scheduling: a goroutine that can take a
\* step takes one, and one that waits for a mutex gets it when it is free again and
\* again (sync.RWMutex queues its waiters); the engine terminates, a parse
\* or an execution being one step.
NextFair ==
    \/ \E t \in Threads, g \in GlobalFuncMaps \ {NilFuncMap} : CallSetGlobalFuncMap(t, g)
    \/ \E t \in Threads, name \in ObjectNames, s \in RaceFileSets : CallAddTemplate(t, name, s)
    \/ \E t \in Threads, name \in ObjectNames, s \in ConcTemplateSets : CallAddTemplateRaw(t, name, s)
    \/ \E t \in Threads, name \in ObjectNames : CallRenderHTML(t, name)
    \/ \E t \in Threads : Step(t)

SpecFair == Init /\ [][NextFair]_vars /\ \A t \in Threads : SF_vars(Step(t))

\* The caller writes the Debug field of the Config the box points to: its
\* own Config, or the one b.Config() returns.
SetDebug(d) ==
    /\ debug # d
    /\ debug' = d
    /\ UNCHANGED <<cfg, fs, templateDir, globalFuncMap, html, rerenderTemplatesHTML, disk,
                   mu, muHTMLRerender, th, started, expected, objects, htmlRef, loc,
                   rerenderMade, panicked>>

\* AddTemplate(name, s) gets to b.rerenderTemplatesHTML[name] = s with the
\* map nil: the constructor makes the map only when cfg.Debug is set then.
NilMapWrite(name, s) ==
    debug /\ ~rerenderMade /\ AddTemplateCall(name, s).err = NoErr

\* That call: the template is in b.html, and the write panics.
AddTemplatePanics(name, s) ==
    /\ NilMapWrite(name, s)
    /\ html' = Put(html, name, CompileFileSet(s).t)
    /\ panicked' = TRUE
    /\ UNCHANGED <<cfg, debug, fs, templateDir, globalFuncMap, rerenderTemplatesHTML, disk,
                   mu, muHTMLRerender, th, started, expected, objects, htmlRef, loc,
                   rerenderMade>>

\* The calls of one caller that also writes the Debug field, until a panic.
NextConfig ==
    \/ \E d \in BOOLEAN : ~panicked /\ SetDebug(d)
    \/ \E name \in Names, s \in ConcFileSets : ~panicked /\ AddTemplatePanics(name, s)
    \/ \E name \in Names, s \in ConcFileSets :
          ~panicked /\ ~NilMapWrite(name, s) /\ AddTemplate(name, s)
    \/ \E name \in Names, s \in ConcTemplateSets : ~panicked /\ AddTemplateRaw(name, s)
    \/ \E name \in Names : ~panicked /\ RenderHTML(name)
    \/ \E path \in WritablePaths, c \in Contents : ~panicked /\ WriteFile(path, c)

SpecConfig == Init /\ [][NextConfig]_vars

\* ------------------------------------------------------------------ claims

\* The sets a registration accepts, and the maps as a call leaves them.
NonEmptyFileSets == {s \in FileSets : Len(s.Filenames) > 0}
NonEmptyTemplateSets == {s \in TemplateSets : Len(s.Templates) > 0}
SameMaps(r) == r.html = html /\ r.rerender = rerenderTemplatesHTML

\* C1: last write wins in every mode: right after a successful AddTemplate or
\* AddTemplateRaw of a name, a RenderHTML of that name executes the template
\* that registration compiled and stored, not one of an earlier registration.
C1_LastWriteWins ==
    [][\A n \in Names :
         (\/ \E s \in NonEmptyFileSets :
                AddTemplate(n, s) /\ AddTemplateCall(n, s).err = NoErr
          \/ \E s \in NonEmptyTemplateSets :
                AddTemplateRaw(n, s) /\ AddTemplateRawCall(n, s).err = NoErr)
         => (RenderHTMLCall(n).executed /\ RenderHTMLCall(n).html[n] = html[n])'
      ]_vars

\* C2: a registration that fails to read or parse a source returns its error
\* and leaves both maps as they are, for every name.
C2_FailedRegistrationAtomic ==
    /\ \A n \in Names, s \in NonEmptyFileSets :
          LET r == AddTemplateCall(n, s) IN
          IF CompileFileSet(s).err THEN r.err = ErrAddFailed /\ SameMaps(r)
          ELSE r.err = NoErr
    /\ \A n \in Names, s \in NonEmptyTemplateSets :
          LET r == AddTemplateRawCall(n, s) IN
          IF CompileTemplateSet(n, s).err THEN r.err = ErrParseFailed /\ r.html = html
          ELSE r.err = NoErr

\* A box in debug mode that holds sets under both names, where registering
\* a set under a held name fails in the parse.
C2_Witness ==
    /\ debug /\ fs = "nil"
    /\ DOMAIN html = Names /\ DOMAIN rerenderTemplatesHTML = Names
    /\ \E s \in NonEmptyFileSets : AddTemplateCall("a", s).err = ErrAddFailed
    /\ \E s \in NonEmptyTemplateSets : AddTemplateRawCall("a", s).err = ErrParseFailed

\* C3: RenderHTML of a name that b.html does not hold returns "template not
\* found", executes nothing, writes nothing and changes neither map, whatever
\* the mode.
C3_RenderUnregistered ==
    \A n \in Names \ DOMAIN html :
        LET r == RenderHTMLCall(n) IN
        /\ r.err = ErrNotFound
        /\ ~r.executed
        /\ r.out = ""
        /\ SameMaps(r)

\* A debug box on the OS filesystem that holds "a" and not "b": rendering
\* "b" is the miss.
C3_Witness ==
    /\ debug /\ fs = "nil"
    /\ DOMAIN html = {"a"} /\ DOMAIN rerenderTemplatesHTML = {"a"}
    /\ RenderHTMLCall("b").err = ErrNotFound

\* C4: AddTemplate with no file name and AddTemplateRaw with no template
\* string return their own error, not a parse error, and change no entry of
\* either map.
C4_EmptySetRejected ==
    /\ \A n \in Names, s \in FileSets :
          Len(s.Filenames) = 0 =>
             LET r == AddTemplateCall(n, s) IN r.err = ErrNoFilenames /\ SameMaps(r)
    /\ \A n \in Names, s \in TemplateSets :
          Len(s.Templates) = 0 =>
             LET r == AddTemplateRawCall(n, s) IN r.err = ErrNoTemplates /\ r.html = html

\* A box that holds a set under "a", compiled from a file, where the call
\* with the empty list is made on "a".
C4_Witness ==
    /\ "a" \in DOMAIN html /\ html["a"].name = <<"a.html">>
    /\ "a" \in DOMAIN rerenderTemplatesHTML
    /\ \E s \in FileSets : AddTemplateCall("a", s).err = ErrNoFilenames
    /\ \E s \in TemplateSets : AddTemplateRawCall("a", s).err = ErrNoTemplates

\* C5: debug reload.  In a debug box on the OS filesystem a successful
\* AddTemplate records its FileSet, and every RenderHTML of a name with a
\* recorded FileSet executes the template parsed from what the files hold at
\* that render (and fails, executing nothing, when they no longer parse).
C5_DebugReload ==
    (debug /\ fs = "nil") =>
       /\ \A n \in Names, s \in NonEmptyFileSets :
             LET r == AddTemplateCall(n, s) IN
             r.err = NoErr => (n \in DOMAIN r.rerender /\ r.rerender[n] = s)
       /\ \A n \in DOMAIN rerenderTemplatesHTML :
             LET r == RenderHTMLCall(n)
                 c == CompileFileSet(rerenderTemplatesHTML[n])
             IN IF c.err THEN r.err = ErrRebuild /\ ~r.executed /\ r.out = ""
                ELSE /\ r.executed
                     /\ r.html[n] = c.t
                     /\ r.out = Execute(c.t).out

\* The file of "a" was rewritten after "a" was compiled: b.html holds the
\* static text, the file now calls f, and the render gives f's result.
C5_Witness ==
    /\ debug /\ fs = "nil"
    /\ "a" \in DOMAIN rerenderTemplatesHTML
    /\ rerenderTemplatesHTML["a"].Filenames = << <<"a.html">> >>
    /\ "a" \in DOMAIN html /\ Execute(html["a"]).out = "v1"
    /\ disk[Join(templateDir, <<"a.html">>)] = "callf"
    /\ RenderHTMLCall("a").err = NoErr
    /\ RenderHTMLCall("a").out = "G1"

\* C6: RenderHTML changes the maps only by a debug rebuild: with debug off,
\* or on an embed.FS, or for a name without recorded FileSet, it leaves both
\* maps as they are whatever it returns, and what it executes is the stored
\* template.
C6_RenderFrame ==
    \A n \in Names :
        (~debug \/ fs # "nil" \/ n \notin DOMAIN rerenderTemplatesHTML) =>
            LET r == RenderHTMLCall(n) IN
            /\ SameMaps(r)
            /\ r.err # ErrRebuild
            /\ r.executed => r.out = Execute(html[n]).out

\* A debug box on an embed.FS whose "a" was recorded and then replaced by
\* AddTemplateRaw, with the OS file of the same name rewritten since.
C6_Witness ==
    /\ debug /\ fs = "embed"
    /\ "a" \in DOMAIN rerenderTemplatesHTML
    /\ "a" \in DOMAIN html /\ html["a"].name = <<"a">>
    /\ disk[Join(templateDir, <<"a.html">>)] = Bad
    /\ RenderHTMLCall("a").executed

\* C7: the Box is safe for concurrent use: in no interleaving of calls from
\* different goroutines are two accesses to one field of the box (html,
\* rerenderTemplatesHTML, globalFuncMap), one of them a write, pending at once
\* without the field's mutex ordering them.
C7_NoDataRace ==
    \A t1, t2 \in Threads : ~DataRace(t1, t2)

\* C8: while the caller registers nothing and sets no FuncMap, every
\* concurrent RenderHTML of a registered name returns what a single-threaded
\* render of that name returns, error and output, with debug on and off; and
\* what a single-threaded render returns stays what it was.
C8_ConcurrentRenders ==
    started =>
        /\ SingleThreaded = expected
        /\ \A t \in Threads :
              th[t].pc = "done" =>
                  [err |-> th[t].err, out |-> th[t].out] = expected[th[t].name]

\* In a debug box on the OS filesystem two goroutines have rendered the two
\* names, each rebuilt from its file on the way, with different outputs.
C8_Witness ==
    /\ started /\ debug /\ fs = "nil"
    /\ Names \subseteq DOMAIN rerenderTemplatesHTML
    /\ th["t1"].pc = "done" /\ th["t1"].name = "a" /\ th["t1"].err = NoErr
    /\ th["t2"].pc = "done" /\ th["t2"].name = "b" /\ th["t2"].err = NoErr
    /\ th["t1"].out # th["t2"].out

\* The table a set with FuncMap m is compiled with under the global map g:
\* m's entry where it has one, else g's.
Layered(g, m) == [i \in Idents |-> IF m[i] # Undef THEN m[i] ELSE g[i]]

\* Whether t executes a body that calls f.
CallsF(t) == t.tmpl[t.name] = "callf"

\* C9: function-table layering.  A set is compiled with the global FuncMap
\* attached first and its own second: for an identifier in both, its renders
\* call the set's own function; the compilation leaves every other set, and
\* so the function it calls, as it is.
C9_FuncLayering ==
    /\ \A n \in Names, s \in NonEmptyFileSets :
          LET r == AddTemplateCall(n, s) IN
          r.err = NoErr =>
             /\ r.html[n].funcs = Layered(globalFuncMap, s.FuncMap)
             /\ CallsF(r.html[n]) =>
                   Execute(r.html[n]).out = Layered(globalFuncMap, s.FuncMap)["f"]
             /\ \A m \in DOMAIN html \ {n} : r.html[m] = html[m]
    /\ \A n \in Names, s \in NonEmptyTemplateSets :
          LET r == AddTemplateRawCall(n, s) IN
          r.err = NoErr =>
             /\ r.html[n].funcs = Layered(globalFuncMap, s.FuncMap)
             /\ CallsF(r.html[n]) =>
                   Execute(r.html[n]).out = Layered(globalFuncMap, s.FuncMap)["f"]
             /\ \A m \in DOMAIN html \ {n} : r.html[m] = html[m]

\* With f in the global FuncMap, "a" was compiled from a FileSet with its own
\* f and "b" from one without: "a" renders with L1, "b" with G1.
C9_Witness ==
    /\ globalFuncMap["f"] = "G1"
    /\ DOMAIN html = Names
    /\ html["a"].name = <<"a.html">> /\ html["b"].name = <<"a.html">>
    /\ CallsF(html["a"]) /\ RenderHTMLCall("a").out = "L1"
    /\ CallsF(html["b"]) /\ RenderHTMLCall("b").out = "G1"

\* C10: SetGlobalFuncMap(g) makes g the global FuncMap, entry for entry, and
\* touches no compiled set: a render that does not rebuild returns what it
\* returned before.  The map takes effect at the next compilation: a
\* registration, or the rebuild of a debug render, layers the set's own
\* FuncMap over the global map of that moment.
C10_SetGlobalFuncMap ==
    /\ [][\A g \in GlobalFuncMaps :
            SetGlobalFuncMap(g) =>
               /\ globalFuncMap' = g
               /\ \A n \in DOMAIN html :
                     ~Rebuilds(n) => RenderHTMLCall(n)' = RenderHTMLCall(n)
         ]_vars
    /\ [](/\ \A n \in DOMAIN html :
                (Rebuilds(n) /\ RenderHTMLCall(n).err = NoErr) =>
                    RenderHTMLCall(n).html[n].funcs
                       = Layered(globalFuncMap, rerenderTemplatesHTML[n].FuncMap)
          /\ \A n \in Names, s \in NonEmptyFileSets :
                AddTemplateCall(n, s).err = NoErr =>
                    AddTemplateCall(n, s).html[n].funcs
                       = Layered(globalFuncMap, s.FuncMap))

\* "a" was compiled while f was in the global FuncMap, which has since been
\* replaced by one without f: "a" is not rebuilt and still renders with G1.
C10_Witness ==
    /\ globalFuncMap = NilFuncMap
    /\ "a" \in DOMAIN html /\ ~Rebuilds("a")
    /\ CallsF(html["a"]) /\ html["a"].funcs["f"] = "G1"
    /\ RenderHTMLCall("a").err = NoErr /\ RenderHTMLCall("a").out = "G1"

\* Whether AddTemplate of the entry fails, and what it compiles otherwise.
Fails(e) == AddTemplateCall(e.name, e.s).err # NoErr
Compiled(e) == AddTemplateCall(e.name, e.s).html[e.name]

\* The entries AddTemplateMap gets through: all of them, or the ones before
\* the first that fails.
Passed(o) == {i \in 1..Len(o) : \A j \in 1..i : ~Fails(o[j])}

\* C11: AddTemplateMap is fail-fast and keep-partial.  In whatever order the
\* entries are visited, it returns the error of the first entry that fails
\* and nil when none does; every entry before that one is registered as
\* AddTemplate registers it; and the failing name and the names after it,
\* like the names outside the mapping, keep in both maps what they had.
C11_AddTemplateMapFailFast ==
    \A o \in MapOrders :
        LET r == AddTemplateMapCall(o)
            passed == Passed(o)
            done == {o[i].name : i \in passed} IN
        /\ passed = 1..Len(o) => r.err = NoErr
        /\ passed # 1..Len(o) =>
               r.err = AddTemplateCall(o[Cardinality(passed) + 1].name,
                                       o[Cardinality(passed) + 1].s).err
        /\ \A i \in passed :
               /\ o[i].name \in DOMAIN r.html
               /\ r.html[o[i].name] = Compiled(o[i])
               /\ debug => /\ o[i].name \in DOMAIN r.rerender
                           /\ r.rerender[o[i].name] = o[i].s
        /\ DOMAIN r.html = DOMAIN html \cup done
        /\ DOMAIN r.rerender = DOMAIN rerenderTemplatesHTML \cup (IF debug THEN done ELSE {})
        /\ \A n \in DOMAIN html \ done : r.html[n] = html[n]
        /\ \A n \in DOMAIN rerenderTemplatesHTML \ done :
               r.rerender[n] = rerenderTemplatesHTML[n]

\* A batch of two whose first entry, "a", was registered and whose second
\* entry fails on its files has just run: "a" holds its set, "b" nothing.
C11_Witness ==
    \E o \in MapOrders :
        /\ Len(o) = 2 /\ o[1].name = "a"
        /\ ~Fails(o[1]) /\ Fails(o[2]) /\ o[2].s.Filenames # << >>
        /\ AddTemplateMapCall(o).err = ErrAddFailed
        /\ DOMAIN html = {"a"} /\ html["a"] = Compiled(o[1])
        /\ debug /\ rerenderTemplatesHTML["a"] = o[1].s

\* C12: a Box built with a nil Config has the default one, with Debug false,
\* and its RenderHTML never recompiles a set; built with a Config of the
\* caller it has that one; and what Config() and TemplateDir() return is
\* what the constructor was given, whatever is called on the Box afterwards.
C12_NilConfigDefault ==
    /\ [][Config' = Config /\ TemplateDir' = TemplateDir]_vars
    /\ [](/\ Config.ptr = "default" =>
               /\ ~Config.Debug
               /\ \A n \in Names : ~Rebuilds(n) /\ SameMaps(RenderHTMLCall(n))
          /\ \A dir \in DirArgs, f \in FSArgs, c \in ConfigArgs, d \in BOOLEAN :
               \A b \in {NewBoxFromOSDir(dir, c, d), NewBoxFromFSDir(f, dir, c, d)} :
                   b.err = NoErr =>
                       /\ b.templateDir = dir
                       /\ c = "nil" => b.cfg = "default" /\ ~b.debug
                       /\ c # "nil" => b.cfg = c /\ b.debug = d)

\* A Box built on the OS filesystem with a nil Config holds "a", whose file
\* has been rewritten since: a render still gives the registered text.
C12_Witness ==
    /\ Config.ptr = "default" /\ fs = "nil" /\ TemplateDir = <<"tpl">>
    /\ "a" \in DOMAIN html /\ html["a"].name = <<"a.html">>
    /\ html["a"].tmpl[<<"a.html">>] = "v1"
    /\ disk[Join(templateDir, <<"a.html">>)] = Bad
    /\ RenderHTMLCall("a").err = NoErr /\ RenderHTMLCall("a").out = "v1"

\* C13: in a debug box on the OS filesystem the recorded FileSet of a name
\* describes the registration in force.  A successful AddTemplate leaves its
\* own FileSet recorded for the name; a successful AddTemplateRaw leaves none recorded, so that
\* no RenderHTML recompiles the name from files.
C13_RecordedFileSetInForce ==
    [][(debug /\ fs = "nil") =>
         \A n \in Names :
            /\ \A s \in NonEmptyFileSets :
                  (AddTemplate(n, s) /\ AddTemplateCall(n, s).err = NoErr)
                      => rerenderTemplatesHTML'[n] = s
            /\ \A s \in NonEmptyTemplateSets :
                  (AddTemplateRaw(n, s) /\ AddTemplateRawCall(n, s).err = NoErr)
                      => /\ n \notin DOMAIN rerenderTemplatesHTML'
                         /\ ~Rebuilds(n)'
      ]_vars

\* A goroutine has returned from a successful AddTemplate of the name and no
\* other goroutine is in an AddTemplate of it.
Registered(t, n) ==
    /\ th[t].pc = "done" /\ th[t].op = "AddTemplate"
    /\ th[t].name = n /\ th[t].err = NoErr
    /\ \A u \in Threads \ {t} : ~(th[u].op = "AddTemplate" /\ th[u].name = n)

\* C14: a completed re-registration is not undone by a concurrent debug
\* render.  In a debug box on the OS filesystem, from the return of a
\* successful AddTemplate of a name and as long as no registration of the
\* name is running, no step changes what the two maps hold for the name,
\* not even a step of a RenderHTML that read the older FileSet before.
C14_ReRegistrationStays ==
    [][\A t \in Threads, n \in Names :
         (debug /\ fs = "nil" /\ Registered(t, n) /\ Registered(t, n)') =>
             /\ html'[n] = html[n]
             /\ rerenderTemplatesHTML'[n] = rerenderTemplatesHTML[n]
      ]_vars

\* No goroutine is inside a call.
Quiescent == \A t \in Threads : th[t].pc \in {"idle", "done"}

\* C15: the two maps agree once the box is quiescent.  In debug mode, when
\* every concurrent AddTemplate has returned, the template b.html holds for
\* a name is the one compiled from the FileSet b.rerenderTemplatesHTML holds
\* for it.
C15_MapsAgreeAtQuiescence ==
    (debug /\ Quiescent) =>
        \A n \in DOMAIN rerenderTemplatesHTML :
            /\ n \in DOMAIN html
            /\ html[n] = CompileFileSet(rerenderTemplatesHTML[n]).t

\* C16: a failed debug recompilation fails the render without side effect.
\* In a debug box on the OS filesystem, when the files recorded for a name
\* do not compile, RenderHTML returns the rebuild error, executes nothing,
\* writes nothing and leaves both maps as they are; when they compile, it
\* stores and executes the template compiled from them.
C16_FailedRebuild ==
    \A n \in Names :
        Rebuilds(n) =>
            LET c == CompileFileSet(rerenderTemplatesHTML[n])
                r == RenderHTMLCall(n) IN
            /\ c.err =>
                  /\ r.err = ErrRebuild
                  /\ ~r.executed /\ r.out = ""
                  /\ SameMaps(r)
            /\ ~c.err =>
                  /\ r.err # ErrRebuild
                  /\ r.executed /\ r.html[n] = c.t
                  /\ r.out = Execute(c.t).out
                  /\ r.rerender = rerenderTemplatesHTML

\* "a" was registered from a.html when it held "v1" and rendered; the file
\* does not parse any more, and the render fails with the old template kept.
C16_Witness ==
    /\ Rebuilds("a")
    /\ rerenderTemplatesHTML["a"].Filenames = << <<"a.html">> >>
    /\ disk[Join(templateDir, <<"a.html">>)] = Bad
    /\ html["a"].tmpl[<<"a.html">>] = "v1"
    /\ RenderHTMLCall("a").err = ErrRebuild
    /\ RenderHTMLCall("a").html["a"] = html["a"]

\* C17: registration replaces, never mutates.  The object a registration or
\* a debug rebuild is about to store is a new one, which b.html does not
\* point to and no other goroutine holds; no step writes to an object that
\* b.html points to, for as long as anything points to it; and a RenderHTML that has fetched an object executes
\* it with the content it had then, whatever is registered meanwhile.
C17_ReplaceNeverMutate ==
    /\ [][\A a \in Stored \cap InUse' : objects'[a] = objects[a]]_vars
    /\ [](\A t \in Threads :
            /\ loc[t].pc = "store" =>
                  /\ loc[t].t \notin Stored
                  /\ \A u \in Threads \ {t} : loc[u].t # loc[t].t
            /\ loc[t].pc = "exec" => objects[loc[t].t] = loc[t].seen
            /\ (loc[t].pc = "done" /\ loc[t].op = "RenderHTML"
                    /\ loc[t].err \notin {ErrNotFound, ErrRebuild}) =>
                  loc[t].out = Execute(loc[t].seen).out)

\* A goroutine is about to execute the object it fetched for "a" while
\* b.html points to another one for "a", with another output.
C17_Witness ==
    \E t \in Threads :
        /\ loc[t].pc = "exec" /\ loc[t].name = "a"
        /\ "a" \in DOMAIN htmlRef /\ htmlRef["a"] # loc[t].t
        /\ Execute(objects[htmlRef["a"]]).out # Execute(objects[loc[t].t]).out

\* The steps of a call that read or parse files, parse strings or execute a
\* template, and the steps at which a goroutine holds b.mu and
\* b.muHTMLRerender: one read or one replacement of one entry.
SlowSteps == {"at_funcs", "at_parse", "raw_funcs", "raw_parse", "rh_exec"}
MuSteps == {"at_store", "raw_store", "rh_read"}
RerenderSteps == {"at_rstore", "rh_rread"}

\* C18: no slow work under a lock. In every operation the reading and
\* parsing of files and strings and the execution of a template happen while
\* the goroutine holds neither lock; a goroutine holds b.mu only at the one
\* read or the one replacement of an entry of b.html, and b.muHTMLRerender
\* only at the one read or replacement of an entry of
\* b.rerenderTemplatesHTML; so a goroutine that waits for a lock waits for a
\* goroutine at such a step, never for one that compiles or executes.
C18_NoSlowWorkUnderLock ==
    /\ \A t \in Threads :
          /\ Holds(t, "html") <=> th[t].pc \in MuSteps
          /\ Holds(t, "rerenderTemplatesHTML") <=> th[t].pc \in RerenderSteps
          /\ th[t].pc \in SlowSteps =>
                ~Holds(t, "html") /\ ~Holds(t, "rerenderTemplatesHTML")
    /\ \A u \in Threads :
          /\ (th[u].pc \in {"at_lock", "raw_lock"} /\ ~CanLock(mu)) =>
                \E t \in Threads \ {u} : th[t].pc \in MuSteps
          /\ (th[u].pc = "rh_lock" /\ ~CanRLock(mu)) =>
                \E t \in Threads \ {u} : th[t].pc \in {"at_store", "raw_store"}
          /\ (th[u].pc = "at_rlock" /\ ~CanLock(muHTMLRerender)) =>
                \E t \in Threads \ {u} : th[t].pc \in RerenderSteps
          /\ (th[u].pc = "rh_rrlock" /\ ~CanRLock(muHTMLRerender)) =>
                \E t \in Threads \ {u} : th[t].pc = "at_rstore"

\* One goroutine parses the files of an AddTemplate while the other holds
\* the read lock of b.html for its lookup.
C18_Witness ==
    \E t, u \in Threads :
        /\ th[t].pc = "at_parse" /\ th[t].op = "AddTemplate"
        /\ th[u].pc = "rh_read" /\ u \in mu.r

\* C19: the compiled object of a file set is rooted at the base name of its
\* first path. For every non-empty list, a first path with a directory
\* included, the object a successful AddTemplate stores has as its executed
\* template the one parsed from the first file, so that RenderHTML of the
\* name renders the content of the first file and not an empty template.
C19_RootedAtFirstFile ==
    \A name \in Names, s \in NonEmptyFileSets :
        LET r == AddTemplateCall(name, s) IN
        r.err = NoErr =>
            LET t == r.html[name] IN
            /\ t.name = Base(s.Filenames[1])
            /\ t.tmpl[t.name] = ReadFile(Join(templateDir, s.Filenames[1]))
            /\ ~Execute(t).err

\* C20: registered names are never evicted. A name that is in b.html is in
\* it in every later state; b.html changes only at the store of a goroutine
\* whose AddTemplate, AddTemplateRaw or debug recompilation has compiled its
\* set, the store writes the compiled template at the name of the call, and
\* the entry of every other name is neither added, removed nor replaced.
C20_NeverEvicted ==
    [][/\ DOMAIN html \subseteq DOMAIN html'
       /\ \A t \in Threads :
             (th[t].pc \in {"at_store", "raw_store"} /\ th'[t] # th[t]) =>
                 /\ th[t].name \in DOMAIN html'
                 /\ html'[th[t].name] = th[t].t
       /\ html' # html =>
             \E t \in Threads :
                 /\ th[t].pc \in {"at_store", "raw_store"} /\ th'[t] # th[t]
                 /\ DOMAIN html' = DOMAIN html \cup {th[t].name}
                 /\ \A n \in DOMAIN html' \ {th[t].name} : html'[n] = html[n]]_vars

\* With "b" registered, the entry of "a" has been overwritten since a
\* goroutine fetched it for its render.
C20_Witness ==
    \E t \in Threads :
        /\ th[t].pc = "rh_exec" /\ th[t].name = "a"
        /\ {"a", "b"} \subseteq DOMAIN html
        /\ html["a"] # th[t].t

\* C21: deadlock freedom and completion. No goroutine holds b.mu and
\* b.muHTMLRerender at the same time or asks for a lock it holds, and a
\* goroutine outside a call holds no lock, whatever the call returned;
\* hence, under fair scheduling, every call of AddTemplate, AddTemplateRaw
\* and RenderHTML (and of SetGlobalFuncMap) returns in any interleaving.
C21_DeadlockFreedom ==
    /\ [](\A t \in Threads :
            /\ ~(Holds(t, "html") /\ Holds(t, "rerenderTemplatesHTML"))
            /\ th[t].pc \in {"at_lock", "raw_lock", "rh_lock"} => ~Holds(t, "html")
            /\ th[t].pc \in {"at_rlock", "rh_rrlock"} => ~Holds(t, "rerenderTemplatesHTML")
            /\ th[t].pc \in {"idle", "done"} =>
                  ~Holds(t, "html") /\ ~Holds(t, "rerenderTemplatesHTML"))
    /\ \A t \in Threads : (th[t].pc \notin {"idle", "done"}) ~> (th[t].pc = "done")

\* A goroutine waits for b.mu to store its template while the other holds
\* the read lock for its lookup.
C21_Witness ==
    \E t, u \in Threads :
        /\ th[t].pc = "at_lock" /\ ~CanLock(mu)
        /\ th[u].pc = "rh_read" /\ u \in mu.r

\* C22: whenever AddTemplate sees the debug flag set,
\* b.rerenderTemplatesHTML has been made, so that recording the FileSet
\* never panics, in every sequence of calls, the ones in which the caller
\* changes the Debug field of the Config after construction included.
C22_RecordingNeverPanics ==
    /\ ~panicked
    /\ \A name \in Names, s \in NonEmptyFileSets : ~NilMapWrite(name, s)

====
